---- MODULE Spec2Model ----
(***************************************************************************)
(* A model of the round-robin reverse-proxy load balancer of main.go.      *)
(*                                                                         *)
(* main builds the pool with newSimpleServer (url.Parse + handleErr), then *)
(* NewLoadBalancer, then listens; net/http runs serveProxy once per        *)
(* request, each in a goroutine of its own.  roundRobinCount is shared and *)
(* unsynchronised, so every roundRobinCount++ is a read step followed by a *)
(* write step, and every other access is a step of its own.                *)
(*                                                                         *)
(* Targets are identified by their 1-based position in lb.servers, so the  *)
(* Go index c % len(servers) is Index(c) - 1.  Strings are sequences of    *)
(* byte values.  The specifications explore the Go int roundRobinCount up  *)
(* to a bound; its wrap-around at the top of the int range lies beyond     *)
(* every bound used here.                                                  *)
(***************************************************************************)
EXTENDS Integers, Sequences, FiniteSets, TLC

\* ------------------------------------------------------------------ bounds
\* SpecSeq: pool sizes, requests, and the largest cursor value written
MaxServers == 3
SeqRequests == 4
MaxCount == 8
\* Spec: the same for concurrent handlers
ConcServers == 2
ConcRequests == 2
ConcMaxCount == 5

\* ------------------------------------------------------------------ state
VARIABLES
    backends,         \* main: the address literals handed to newSimpleServer
    phase,            \* main's position: "construct", "listening", "exited"
    exitCode,         \* os.Exit's argument, -1 while the process runs
    stdout,           \* the lines printed with fmt.Printf, in order
    port,             \* LoadBalancer.port
    servers,          \* LoadBalancer.servers (built up by main's slice literal)
    roundRobinCount,  \* LoadBalancer.roundRobinCount
    pc,               \* per request: the position of its handler goroutine
    req,              \* per request: the *http.Request handed to the handler
    server,           \* per request: the local `server` / `targetServer`
    tmp,              \* per request: the value read by a pending ++
    start,            \* per request: the cursor read at line 74
    nSelect,          \* per request: calls of getNextAvailableServer so far
    nServe,           \* per request: calls of Serve so far
    served,           \* per request: what Serve received, and from which upstream
    resp,             \* per request: what was written to the ResponseWriter
    observed          \* the set of cursor values read at line 74 so far

vars == <<backends, phase, exitCode, stdout, port, servers, roundRobinCount,
          pc, req, server, tmp, start, nSelect, nServe, served, resp, observed>>

mainVars == <<backends, phase, exitCode, port, servers>>
localVars == <<req, server, tmp, start, nSelect, nServe, served, resp>>

\* ------------------------------------------------------------ strings, URLs
\* "h" followed by the digit i: a well-formed address, distinct per slot.
GoodAddr(i) == <<104, 48 + i>>
\* "h" followed by NUL, the kind of address url.Parse rejects.
BadAddr == <<104, 0>>

\* url.Parse(addr) returns a nil error: it rejects a string holding an ASCII
\* control byte (below 0x20, or 0x7f).
ParseOK(addr) == \A k \in 1..Len(addr) : addr[k] >= 32 /\ addr[k] # 127

\* The requests a client may send, as far as their content goes (the body,
\* and the path, standing for method and headers too): SpecSeq draws each
\* request from Inbound(Bodies, Paths); Spec, whose subject is the
\* interleaving, sends the one request of Inbound(OneBody, OnePath).
Bodies == {"x", "y"}
OneBody == {"x"}
Paths == {"/", "/a"}
OnePath == {"/"}
Inbound(bodies, paths) == [body : bodies, path : paths]
NoReq == [body |-> "-", path |-> "-"]
NoResp == [status |-> 0, body |-> "-"]
NoServed == [target |-> 0, body |-> "-", upstream |-> "-", rw |-> 0]

\* ----------------------------------------------------------------- helpers
Requests == DOMAIN pc
N == Len(servers)

\* Mutant of Index: the rotation starts one position late.
IndexOffByOne(c) == ((c + 1) % N) + 1
\* Go's a % n for n > 0: the remainder has the sign of a.
GoRem(a, n) == IF a >= 0 THEN a % n ELSE -((-a) % n)

\* Mutant of Index: the cursor is used without the modulo.
IndexNoMod(c) == c + 1
\* lb.servers[c % len(lb.servers)], as a 1-based position
Index(c) == GoRem(c, N) + 1

\* Mutant of IsAlive: the liveness test always passes.
IsAliveAlways(i) == TRUE
\* Server.IsAlive() of the target at position i
IsAlive(i) == servers[i].alive
\* Server.Address() of the target at position i
Address(i) == servers[i].addr

\* Mutant of SimpleIsAlive: IsAlive reports a flag that may be false.
SimpleIsAliveFlag == BOOLEAN
\* simpleServer.IsAlive: constantly true
SimpleIsAlive == {TRUE}
\* any implementation of the Server interface may answer either way
AnyIsAlive == BOOLEAN

\* What a pool member can be: the simpleServer of the source, or some other
\* implementation of the Server interface.
SimpleServer == [impl : {"simpleServer"}, alive : SimpleIsAlive]
OtherServer == [impl : {"other"}, alive : AnyIsAlive]

\* -------------------------------------------------------------------- Init
Configs(M) == UNION {[1..n -> {0, 1}] : n \in 1..M}

BackendsOf(c) == [i \in 1..Len(c) |-> IF c[i] = 1 THEN GoodAddr(i) ELSE BadAddr]

InitWith(K, M) ==
    /\ backends \in {BackendsOf(c) : c \in Configs(M)}
    /\ phase = "construct"
    /\ exitCode = -1
    /\ stdout = <<>>
    /\ port = ""
    /\ servers = <<>>
    /\ roundRobinCount = 0
    /\ pc = [h \in 1..K |-> "idle"]
    /\ req = [h \in 1..K |-> NoReq]
    /\ server = [h \in 1..K |-> 0]
    /\ tmp = [h \in 1..K |-> 0]
    /\ start = [h \in 1..K |-> -1]
    /\ nSelect = [h \in 1..K |-> 0]
    /\ nServe = [h \in 1..K |-> 0]
    /\ served = [h \in 1..K |-> NoServed]
    /\ resp = [h \in 1..K |-> NoResp]
    /\ observed = {}

\* ------------------------------------------------------------------- main
\* handleErr(err) with err != nil: print the error and os.Exit(1)
HandleErr ==
    /\ stdout' = Append(stdout, [kind |-> "error", target |-> 0, addr |-> <<>>])
    /\ exitCode' = 1
    /\ phase' = "exited"

\* Mutant of NewSimpleServer: the error of url.Parse is dropped.
NewSimpleServerUnchecked(impls) ==
    /\ phase = "construct"
    /\ Len(servers) < Len(backends)
    /\ \E s \in impls :
         servers' = Append(servers, [addr |-> backends[Len(servers) + 1],
                                     alive |-> s.alive, impl |-> s.impl])
    /\ UNCHANGED <<stdout, exitCode, phase>>
    /\ UNCHANGED <<backends, port, roundRobinCount, pc, localVars, observed>>

\* The next element of main's slice literal: newSimpleServer(addr).  The
\* member built is one of impls: a simpleServer as in the source, or, to let
\* the pool hold targets that are not alive, another Server implementation
\* built the same way.
NewSimpleServer(impls) ==
    /\ phase = "construct"
    /\ Len(servers) < Len(backends)
    /\ LET addr == backends[Len(servers) + 1] IN
         IF ParseOK(addr)
           THEN /\ \E s \in impls :
                     servers' = Append(servers, [addr |-> addr, alive |-> s.alive,
                                                 impl |-> s.impl])
                /\ UNCHANGED <<stdout, exitCode, phase>>
           ELSE /\ HandleErr
                /\ UNCHANGED servers
    /\ UNCHANGED <<backends, port, roundRobinCount, pc, localVars, observed>>

\* lb := NewLoadBalancer("8000", servers), then the listener starts.
NewLoadBalancer ==
    /\ phase = "construct"
    /\ Len(servers) = Len(backends)
    /\ port' = "8000"
    /\ roundRobinCount' = 0
    /\ stdout' = Append(stdout, [kind |-> "serving", target |-> 0, addr |-> <<>>])
    /\ phase' = "listening"
    /\ UNCHANGED <<backends, exitCode, servers, pc, localVars, observed>>

\* --------------------------------------------------------- request handling
\* net/http accepts a request and starts handleRedirect -> lb.serveProxy in a
\* new goroutine.  Requests are numbered in the order they are accepted.
HandleRedirect(h, inbound) ==
    /\ phase = "listening"
    /\ pc[h] = "idle"
    /\ \A g \in Requests : g < h => pc[g] # "idle"
    /\ \E r \in inbound : req' = [req EXCEPT ![h] = r]
    /\ pc' = [pc EXCEPT ![h] = "L74"]
    /\ UNCHANGED <<mainVars, stdout, roundRobinCount, server, tmp, start,
                   nSelect, nServe, served, resp, observed>>

\* Mutant of Select74: the request's path shifts the choice.
Select74ByPath(h) ==
    /\ pc[h] = "L74"
    /\ server' = [server EXCEPT ![h] =
                    Index(roundRobinCount + (IF req[h].path = "/" THEN 0 ELSE 1))]
    /\ start' = [start EXCEPT ![h] = roundRobinCount]
    /\ observed' = observed \cup {roundRobinCount}
    /\ nSelect' = [nSelect EXCEPT ![h] = @ + 1]
    /\ pc' = [pc EXCEPT ![h] = "L75"]
    /\ UNCHANGED <<mainVars, stdout, roundRobinCount, req, tmp, nServe, served, resp>>

\* Mutant of Select74: a lock taken here is held until Serve has returned.
Select74Locked(h) ==
    /\ pc[h] = "L74"
    /\ \A g \in Requests :
         pc[g] \notin {"L75", "L76w", "L77", "L80w", "L91", "L95"}
    /\ server' = [server EXCEPT ![h] = Index(roundRobinCount)]
    /\ start' = [start EXCEPT ![h] = roundRobinCount]
    /\ observed' = observed \cup {roundRobinCount}
    /\ nSelect' = [nSelect EXCEPT ![h] = @ + 1]
    /\ pc' = [pc EXCEPT ![h] = "L75"]
    /\ UNCHANGED <<mainVars, stdout, roundRobinCount, req, tmp, nServe, served, resp>>

\* line 74: server := lb.servers[lb.roundRobinCount % len(lb.servers)]
Select74(h) ==
    /\ pc[h] = "L74"
    /\ server' = [server EXCEPT ![h] = Index(roundRobinCount)]
    /\ start' = [start EXCEPT ![h] = roundRobinCount]
    /\ observed' = observed \cup {roundRobinCount}
    /\ nSelect' = [nSelect EXCEPT ![h] = @ + 1]
    /\ pc' = [pc EXCEPT ![h] = "L75"]
    /\ UNCHANGED <<mainVars, stdout, roundRobinCount, req, tmp, nServe, served, resp>>

\* Mutant of LoopRead76: the scan gives up after one pass over the pool.
LoopRead76Bounded(h) ==
    /\ pc[h] = "L75"
    /\ ~IsAlive(server[h])
    /\ tmp' = [tmp EXCEPT ![h] = roundRobinCount]
    /\ pc' = [pc EXCEPT ![h] = IF roundRobinCount - start[h] >= N
                                THEN "L80w" ELSE "L76w"]
    /\ UNCHANGED <<mainVars, stdout, roundRobinCount, req, server, start,
                   nSelect, nServe, served, resp, observed>>

\* lines 75-76: !server.IsAlive(), and the read half of lb.roundRobinCount++
LoopRead76(h) ==
    /\ pc[h] = "L75"
    /\ ~IsAlive(server[h])
    /\ tmp' = [tmp EXCEPT ![h] = roundRobinCount]
    /\ pc' = [pc EXCEPT ![h] = "L76w"]
    /\ UNCHANGED <<mainVars, stdout, roundRobinCount, req, server, start,
                   nSelect, nServe, served, resp, observed>>

\* Mutant of LoopWrite76: a skip moves the cursor on by two.
LoopWrite76Twice(h) ==
    /\ pc[h] = "L76w"
    /\ roundRobinCount' = tmp[h] + 2
    /\ tmp' = [tmp EXCEPT ![h] = 0]
    /\ pc' = [pc EXCEPT ![h] = "L77"]
    /\ UNCHANGED <<mainVars, stdout, req, server, start,
                   nSelect, nServe, served, resp, observed>>

\* line 76: the write half of lb.roundRobinCount++
LoopWrite76(h) ==
    /\ pc[h] = "L76w"
    /\ roundRobinCount' = tmp[h] + 1
    /\ tmp' = [tmp EXCEPT ![h] = 0]
    /\ pc' = [pc EXCEPT ![h] = "L77"]
    /\ UNCHANGED <<mainVars, stdout, req, server, start,
                   nSelect, nServe, served, resp, observed>>

\* Mutant of Reselect77: the candidate just skipped is read again.
Reselect77Stale(h) ==
    /\ pc[h] = "L77"
    /\ server' = [server EXCEPT ![h] = Index(roundRobinCount - 1)]
    /\ pc' = [pc EXCEPT ![h] = "L75"]
    /\ UNCHANGED <<mainVars, stdout, roundRobinCount, req, tmp, start,
                   nSelect, nServe, served, resp, observed>>

\* Mutant of Reselect77: the candidate after a skip is taken one further on.
Reselect77Skip(h) ==
    /\ pc[h] = "L77"
    /\ server' = [server EXCEPT ![h] = Index(roundRobinCount + 1)]
    /\ pc' = [pc EXCEPT ![h] = "L75"]
    /\ UNCHANGED <<mainVars, stdout, roundRobinCount, req, tmp, start,
                   nSelect, nServe, served, resp, observed>>

\* line 77: server = lb.servers[lb.roundRobinCount % len(lb.servers)]
Reselect77(h) ==
    /\ pc[h] = "L77"
    /\ server' = [server EXCEPT ![h] = Index(roundRobinCount)]
    /\ pc' = [pc EXCEPT ![h] = "L75"]
    /\ UNCHANGED <<mainVars, stdout, roundRobinCount, req, tmp, start,
                   nSelect, nServe, served, resp, observed>>

\* Mutant of IncRead80: the loop is left without the liveness test.
IncRead80Unchecked(h) ==
    /\ pc[h] = "L75"
    /\ tmp' = [tmp EXCEPT ![h] = roundRobinCount]
    /\ pc' = [pc EXCEPT ![h] = "L80w"]
    /\ UNCHANGED <<mainVars, stdout, roundRobinCount, req, server, start,
                   nSelect, nServe, served, resp, observed>>

\* lines 75, 80: server.IsAlive(), and the read half of lb.roundRobinCount++
IncRead80(h) ==
    /\ pc[h] = "L75"
    /\ IsAlive(server[h])
    /\ tmp' = [tmp EXCEPT ![h] = roundRobinCount]
    /\ pc' = [pc EXCEPT ![h] = "L80w"]
    /\ UNCHANGED <<mainVars, stdout, roundRobinCount, req, server, start,
                   nSelect, nServe, served, resp, observed>>

\* Mutant of IncWrite80: the final increment is lost.
IncWrite80NoInc(h) ==
    /\ pc[h] = "L80w"
    /\ roundRobinCount' = tmp[h]
    /\ tmp' = [tmp EXCEPT ![h] = 0]
    /\ pc' = [pc EXCEPT ![h] = "L91"]
    /\ UNCHANGED <<mainVars, stdout, req, server, start,
                   nSelect, nServe, served, resp, observed>>

\* lines 80-83: the write half of lb.roundRobinCount++, and return server
IncWrite80(h) ==
    /\ pc[h] = "L80w"
    /\ roundRobinCount' = tmp[h] + 1
    /\ tmp' = [tmp EXCEPT ![h] = 0]
    /\ pc' = [pc EXCEPT ![h] = "L91"]
    /\ UNCHANGED <<mainVars, stdout, req, server, start,
                   nSelect, nServe, served, resp, observed>>

\* line 91: fmt.Printf("forwarding request to address %q\n", ...)
PrintForward91(h) ==
    /\ pc[h] = "L91"
    /\ stdout' = Append(stdout, [kind |-> "forward", target |-> server[h],
                                  addr |-> Address(server[h])])
    /\ pc' = [pc EXCEPT ![h] = "L95"]
    /\ UNCHANGED <<mainVars, roundRobinCount, localVars, observed>>

\* Mutant of ForwardedRequest: Serve is handed a fresh, empty request.
ForwardedRequestEmpty(h) == [body |-> "", path |-> "/"]
\* What serveProxy hands to targetServer.Serve: the request it was given,
ForwardedRequest(h) == req[h]
\* and the ResponseWriter it was given (request h's own).
ForwardedWriter(h) == h

\* s.proxy.ServeHTTP(rw, r): the reverse proxy relays r to the upstream and
\* writes the upstream's answer to rw; an upstream that cannot be reached is
\* answered with 502 Bad Gateway and nothing is returned to the caller.
ProxyServeHTTP(r, upstream) ==
    IF upstream = "echo" THEN [status |-> 200, body |-> r.body]
                         ELSE [status |-> 502, body |-> ""]

\* Mutant of AfterServe: a failed forward is tried again on the next target.
AfterServeRetry(h, answer) == IF answer.status = 502 THEN "L74" ELSE "written"
\* Where serveProxy goes after Serve returns, whatever was answered: line 96.
AfterServe(h, answer) == "written"

\* Mutant of Serve95: a target whose forward failed is marked not alive.
Serve95MarkDead(h) ==
    /\ pc[h] = "L95"
    /\ \E upstream \in {"echo", "down"} :
         LET r == ForwardedRequest(h)
             answer == ProxyServeHTTP(r, upstream) IN
           /\ served' = [served EXCEPT ![h] =
                         [target |-> server[h], body |-> r.body,
                          upstream |-> upstream, rw |-> ForwardedWriter(h)]]
           /\ resp' = [resp EXCEPT ![ForwardedWriter(h)] = answer]
           /\ pc' = [pc EXCEPT ![h] = AfterServe(h, answer)]
           /\ servers' = IF upstream = "down"
                           THEN [servers EXCEPT ![server[h]].alive = FALSE]
                           ELSE servers
    /\ nServe' = [nServe EXCEPT ![h] = @ + 1]
    /\ UNCHANGED <<backends, phase, exitCode, port, stdout, roundRobinCount, req,
                   server, tmp, start, nSelect, observed>>

\* line 95: targetServer.Serve(rw, req)
Serve95(h) ==
    /\ pc[h] = "L95"
    /\ \E upstream \in {"echo", "down"} :
         LET r == ForwardedRequest(h)
             answer == ProxyServeHTTP(r, upstream) IN
           /\ served' = [served EXCEPT ![h] =
                         [target |-> server[h], body |-> r.body,
                          upstream |-> upstream, rw |-> ForwardedWriter(h)]]
           /\ resp' = [resp EXCEPT ![ForwardedWriter(h)] = answer]
           /\ pc' = [pc EXCEPT ![h] = AfterServe(h, answer)]
    /\ nServe' = [nServe EXCEPT ![h] = @ + 1]
    /\ UNCHANGED <<mainVars, stdout, roundRobinCount, req, server, tmp, start,
                   nSelect, observed>>

\* line 96: serveProxy returns; the goroutine and its locals are gone.
ReturnServeProxy(h) ==
    /\ pc[h] = "written"
    /\ pc' = [pc EXCEPT ![h] = "done"]
    /\ req' = [req EXCEPT ![h] = NoReq]
    /\ server' = [server EXCEPT ![h] = 0]
    /\ start' = [start EXCEPT ![h] = -1]
    /\ nSelect' = [nSelect EXCEPT ![h] = 0]
    /\ nServe' = [nServe EXCEPT ![h] = 0]
    /\ served' = [served EXCEPT ![h] = NoServed]
    /\ resp' = [resp EXCEPT ![h] = NoResp]
    /\ UNCHANGED <<mainVars, stdout, roundRobinCount, tmp, observed>>

\* ---------------------------------------------------------- specifications
Active(h) == pc[h] \notin {"idle", "done"}

\* One request at a time: the next is accepted when the last has returned.
HandleRedirectSeq(h, inbound) ==
    /\ \A g \in Requests : ~Active(g)
    /\ HandleRedirect(h, inbound)

Init == InitWith(ConcRequests, ConcServers)
InitSeq == InitWith(SeqRequests, MaxServers)

\* The bound on the cursor: a step that would write more is not explored.
Within(cap) == roundRobinCount' <= cap

Next ==
    \/ NewSimpleServer(OtherServer)
    \/ NewLoadBalancer
    \/ \E h \in Requests : HandleRedirect(h, Inbound(OneBody, OnePath))
    \/ \E h \in Requests : Select74(h)
    \/ \E h \in Requests : LoopRead76(h)
    \/ \E h \in Requests : LoopWrite76(h) /\ Within(ConcMaxCount)
    \/ \E h \in Requests : Reselect77(h)
    \/ \E h \in Requests : IncRead80(h)
    \/ \E h \in Requests : IncWrite80(h) /\ Within(ConcMaxCount)
    \/ \E h \in Requests : PrintForward91(h)
    \/ \E h \in Requests : Serve95(h)
    \/ \E h \in Requests : ReturnServeProxy(h)

NextSeq ==
    \/ NewSimpleServer(OtherServer)
    \/ NewLoadBalancer
    \/ \E h \in Requests : HandleRedirectSeq(h, Inbound(Bodies, Paths))
    \/ \E h \in Requests : Select74(h)
    \/ \E h \in Requests : LoopRead76(h)
    \/ \E h \in Requests : LoopWrite76(h) /\ Within(MaxCount)
    \/ \E h \in Requests : Reselect77(h)
    \/ \E h \in Requests : IncRead80(h)
    \/ \E h \in Requests : IncWrite80(h) /\ Within(MaxCount)
    \/ \E h \in Requests : PrintForward91(h)
    \/ \E h \in Requests : Serve95(h)
    \/ \E h \in Requests : ReturnServeProxy(h)

NextMixed ==
    \/ NewSimpleServer(SimpleServer \cup OtherServer)
    \/ NewLoadBalancer
    \/ \E h \in Requests : HandleRedirect(h, Inbound(OneBody, OnePath))
    \/ \E h \in Requests : Select74(h)
    \/ \E h \in Requests : LoopRead76(h)
    \/ \E h \in Requests : LoopWrite76(h) /\ Within(ConcMaxCount)
    \/ \E h \in Requests : Reselect77(h)
    \/ \E h \in Requests : IncRead80(h)
    \/ \E h \in Requests : IncWrite80(h) /\ Within(ConcMaxCount)
    \/ \E h \in Requests : PrintForward91(h)
    \/ \E h \in Requests : Serve95(h)
    \/ \E h \in Requests : ReturnServeProxy(h)

\* Concurrent handlers, any Server implementation's liveness.
Spec == Init /\ [][Next]_vars
\* Concurrent handlers, pools of simpleServers and other implementations.
SpecMixed == Init /\ [][NextMixed]_vars
\* Sequential calls, any Server implementation's liveness.
SpecSeq == InitSeq /\ [][NextSeq]_vars

\* ------------------------------------------------------------------ claims
Listening == phase = "listening"
Alive(i) == servers[i].alive
LiveTargets == {i \in 1..N : Alive(i)}
AllAlive == Listening /\ LiveTargets = 1..N
\* getNextAvailableServer has returned to serveProxy in request h
Returned(h) == pc[h] \in {"L91", "L95", "written"}
\* the calls that have read the cursor at line 74
Started == {h \in Requests : pc[h] \notin {"idle", "L74"}}

ForwardLines == SelectSeq(stdout, LAMBDA e : e.kind = "forward")
\* the targets chosen, in the order the requests were dispatched
Forwards == [k \in 1..Len(ForwardLines) |-> ForwardLines[k].target]
CountOf(i, seq) == Cardinality({k \in 1..Len(seq) : seq[k] = i})

\* C1 -- Round-robin fairness: with every target alive and the calls made one
\* after the other from cursor 0, the k-th call (k = 0, 1, ...) returns the
\* target at index k mod N, and after a multiple of N calls every target has
\* been returned the same number of times.
C1_RoundRobinFairness ==
    AllAlive =>
        /\ \A k \in 1..Len(Forwards) : Forwards[k] = ((k - 1) % N) + 1
        /\ \A h \in Requests : Returned(h) => server[h] = (start[h] % N) + 1
        /\ Len(Forwards) % N = 0 =>
             \A i \in 1..N : CountOf(i, Forwards) = Len(Forwards) \div N

C1_Witness ==
    /\ AllAlive
    /\ N = 2
    /\ Len(Forwards) = 4
    /\ CountOf(1, Forwards) = 2

\* C2 -- Concurrency safety, as the specification states it: with every target
\* alive, no two concurrent callers read the same cursor value at line 74, and
\* once all calls have finished the cursor has advanced by one per call.
C2_ConcurrencySafety ==
    AllAlive =>
        /\ Cardinality(observed) = Cardinality(Started)
        /\ (\A h \in Requests : ~Active(h)) =>
             roundRobinCount = Cardinality({h \in Requests : pc[h] = "done"})

\* C3 -- Dead-target skip: with exactly one of N >= 2 targets not alive, calls
\* made one after the other never return it, and any N-1 consecutive calls
\* return each live target exactly once.
C3_DeadTargetSkip ==
    (Listening /\ N >= 2 /\ Cardinality(LiveTargets) = N - 1) =>
        /\ \A k \in 1..Len(Forwards) : Alive(Forwards[k])
        /\ \A h \in Requests : Returned(h) => Alive(server[h])
        /\ \A j \in 0..(Len(Forwards) - (N - 1)) :
             \A i \in LiveTargets :
               Cardinality({k \in (j + 1)..(j + N - 1) : Forwards[k] = i}) = 1

C3_Witness ==
    /\ Listening
    /\ N = 3
    /\ LiveTargets = {1, 3}
    /\ Len(Forwards) = 4

\* The first live target met when scanning positions Index(c), Index(c+1), ...
\* in cyclic order (defined when some target is alive).
RECURSIVE FirstLive(_)
FirstLive(c) == IF Alive((c % N) + 1) THEN (c % N) + 1 ELSE FirstLive(c + 1)

\* C4 -- Selection result: with at least one live target, a call made with
\* cursor c (calls one after the other) returns the first live target in the
\* cyclic scan from c mod N; for the pool [A alive, B alive, C not alive]
\* the first four requests go to A, B, A, B.
C4_SelectionResult ==
    (Listening /\ LiveTargets # {}) =>
        /\ \A h \in Requests : Returned(h) => server[h] = FirstLive(start[h])
        /\ (N = 3 /\ LiveTargets = {1, 2}) =>
             \A k \in 1..Len(Forwards) :
               k <= 4 => Forwards[k] = <<1, 2, 1, 2>>[k]

C4_Witness ==
    /\ Listening
    /\ N = 3
    /\ LiveTargets = {1, 2}
    /\ Forwards = <<1, 2, 1, 2>>

\* One call leaves the cursor above the value it read at line 74.
C5_ReturnedAbove == \A h \in Requests : Returned(h) => roundRobinCount > start[h]
\* The cursor never decreases, and a call never starts from a value an earlier
\* call started from.
C5_Step ==
    /\ roundRobinCount' >= roundRobinCount
    /\ \A h \in Requests :
         (start'[h] # start[h] /\ start'[h] >= 0) => start'[h] \notin observed

\* C5 -- Progress invariant: with the calls made one after the other, a call
\* that returns leaves roundRobinCount strictly greater than it found it, the
\* cursor never decreases, and no two calls start from the same cursor value.
C5_ProgressInvariant == []C5_ReturnedAbove /\ [][C5_Step]_vars

C5_Witness ==
    /\ Listening
    /\ \E h \in Requests : Returned(h) /\ start[h] = 2 /\ roundRobinCount = 4
    /\ Cardinality(observed) = 3
AllDead == Listening /\ LiveTargets = {}
InLoop(h) == pc[h] \in {"L75", "L76w", "L77"}

\* While every target is dead a call stays in the skip loop, which can always
\* take another step; nothing is forwarded and nothing is answered.
C6_Spinning ==
    AllDead =>
        /\ \A h \in Requests :
             /\ pc[h] \in {"idle", "L74", "L75", "L76w", "L77"}
             /\ nServe[h] = 0
             /\ served[h] = NoServed
             /\ resp[h] = NoResp
             /\ InLoop(h) =>
                  ENABLED (LoopRead76(h) \/ LoopWrite76(h) \/ Reselect77(h))
        /\ Len(ForwardLines) = 0
\* Each iteration of the loop adds one to the cursor.
C6_Step ==
    AllDead =>
        \A h \in Requests :
          (pc[h] = "L76w" /\ pc'[h] = "L77") => roundRobinCount' = roundRobinCount + 1

\* C6 -- Pool exhaustion: with every target not alive, a call to
\* getNextAvailableServer never returns: it stays in the skip loop, which
\* increments the cursor on each iteration; no target is returned, no forward
\* is made and no response of any kind is produced for the request.
C6_PoolExhaustion == []C6_Spinning /\ [][C6_Step]_vars

C6_Witness ==
    /\ AllDead
    /\ N = 2
    /\ \E h \in Requests : pc[h] = "L75" /\ start[h] = 0 /\ roundRobinCount = 5

\* A request selects once and is served once, by the target selected.
C7_Once ==
    \A h \in Requests :
      /\ nSelect[h] <= 1
      /\ nServe[h] <= 1
      /\ pc[h] = "written" =>
           /\ nSelect[h] = 1
           /\ nServe[h] = 1
           /\ served[h].target = server[h]
\* After Serve, whatever it answered, the handler only returns; neither step
\* touches the cursor or the targets.
C7_Step ==
    \A h \in Requests :
      /\ (pc[h] = "L95" /\ pc'[h] # "L95") =>
           /\ pc'[h] = "written"
           /\ roundRobinCount' = roundRobinCount
           /\ servers' = servers
      /\ (pc[h] = "written" /\ pc'[h] # "written") =>
           /\ pc'[h] = "done"
           /\ roundRobinCount' = roundRobinCount
           /\ servers' = servers

\* C7 -- No retry or failover: each request makes exactly one selection and
\* one Serve call, on the target selected; when the forward fails the handler
\* selects no other target, calls Serve no second time, leaves the cursor
\* where it is and leaves the target's liveness as it was.
C7_NoRetry == []C7_Once /\ [][C7_Step]_vars

C7_Witness ==
    \E h \in Requests :
      /\ pc[h] = "done"
      /\ \E g \in Requests : pc[g] = "written" /\ resp[g].status = 502

BadConfig == \E i \in 1..Len(backends) : ~ParseOK(backends[i])
FirstBad ==
    CHOOSE i \in 1..Len(backends) :
      ~ParseOK(backends[i]) /\ \A j \in 1..(i - 1) : ParseOK(backends[j])

\* C8 -- Startup validation: when some configured address fails parsing the
\* process ends in the fatal exit (error printed, exit code 1) while main is
\* still building the pool: the listener never starts and no request is ever
\* selected or forwarded; the exit never happens once requests are handled.
C8_StartupValidation ==
    /\ BadConfig =>
         /\ phase \in {"construct", "exited"}
         /\ \A h \in Requests : pc[h] = "idle" /\ nSelect[h] = 0 /\ nServe[h] = 0
         /\ Len(ForwardLines) = 0
         /\ Len(servers) < FirstBad
         /\ phase = "exited" =>
              /\ exitCode = 1
              /\ Len(servers) = FirstBad - 1
              /\ stdout = <<[kind |-> "error", target |-> 0, addr |-> <<>>]>>
         /\ phase = "construct" =>
              /\ exitCode = -1
              /\ ENABLED NewSimpleServer(OtherServer)
              /\ ~ENABLED NewLoadBalancer
    /\ phase = "exited" => BadConfig /\ \A h \in Requests : pc[h] = "idle"
    /\ Listening => \A i \in 1..N : ParseOK(servers[i].addr)

C8_Witness ==
    /\ phase = "exited"
    /\ Len(backends) = 2
    /\ Len(servers) = 1

\* C9 -- Forwarding transparency: Serve receives the request and the response
\* writer serveProxy was given, on the target selected; when the upstream
\* echoes the request, the response delivered has the request's body.
C9_ForwardingTransparency ==
    \A h \in Requests :
      pc[h] = "written" =>
        /\ served[h].body = req[h].body
        /\ served[h].rw = h
        /\ served[h].target = server[h]
        /\ served[h].upstream = "echo" =>
             resp[h] = [status |-> 200, body |-> req[h].body]

C9_Witness ==
    \E h \in Requests :
      /\ pc[h] = "written"
      /\ req[h].body = "y"
      /\ served[h].upstream = "echo"
      /\ resp[h].body = "y"

\* C10 -- Only live targets are returned: under concurrent callers and any
\* liveness assignment, the target a call leaves the loop with, returns,
\* prints and forwards to is alive.
C10_OnlyLiveReturned ==
    Listening =>
        /\ \A h \in Requests :
             /\ pc[h] \in {"L80w", "L91", "L95", "written"} => Alive(server[h])
             /\ served[h].target # 0 => Alive(served[h].target)
        /\ \A k \in 1..Len(Forwards) : Alive(Forwards[k])

C10_Witness ==
    /\ Listening
    /\ LiveTargets = {2}
    /\ \A h \in Requests : pc[h] = "written" /\ served[h].target = 2

\* C11 -- Index validity: for a non-empty pool, in every state reached by
\* sequential or interleaved selection calls, the cursor is not negative, the
\* index roundRobinCount % len(servers) lies in 0..len(servers)-1, and so does
\* every index a call has used to read lb.servers.
C11_IndexValidity ==
    Listening =>
        /\ N >= 1
        /\ roundRobinCount >= 0
        /\ Index(roundRobinCount) - 1 \in 0..(N - 1)
        /\ \A h \in Requests :
             pc[h] \in {"L75", "L76w", "L77", "L80w", "L91", "L95", "written"} =>
               server[h] - 1 \in 0..(N - 1)

C11_Witness ==
    /\ Listening
    /\ N = 2
    /\ roundRobinCount = 3
    /\ \E h, g \in Requests : h # g /\ pc[h] = "L75" /\ pc[g] = "L77"
\* The number of consecutive not-alive targets met when scanning from the
\* position of cursor c (defined when some target is alive).
RECURSIVE DeadRun(_)
DeadRun(c) == IF Alive((c % N) + 1) THEN 0 ELSE 1 + DeadRun(c + 1)

\* C12 -- Cursor advance amount: with the calls made one after the other, a
\* call that returns has raised roundRobinCount by exactly 1 + d, d being the
\* number of consecutive not-alive targets scanned from index cursor mod N
\* before the first live one (by exactly 1 when every target is alive), and
\* the next call starts at the index right after the target returned.
C12_CursorAdvance ==
    (Listening /\ LiveTargets # {}) =>
        \A h \in Requests :
          Returned(h) =>
            /\ roundRobinCount = start[h] + 1 + DeadRun(start[h])
            /\ AllAlive => roundRobinCount = start[h] + 1
            /\ roundRobinCount % N = server[h] % N

C12_Witness ==
    /\ Listening
    /\ N = 3
    /\ LiveTargets = {2}
    /\ \E h \in Requests : Returned(h) /\ start[h] = 2 /\ roundRobinCount = 5
\* With the calls made one after the other only the running call writes the
\* cursor, once per iteration of the skip loop and once more at line 80: the
\* iterations it has completed are the cursor's advance since its line 74.
Iterations(h) ==
    IF Returned(h) THEN roundRobinCount - start[h] - 1
                   ELSE roundRobinCount - start[h]

\* C13 -- Bounded scan: with at least one live target and the calls made one
\* after the other, a call runs at most N-1 iterations of the skip loop: it
\* never begins an N-th one, and in the loop it always has a next step.
C13_BoundedScan ==
    (Listening /\ LiveTargets # {}) =>
        \A h \in Requests :
          /\ (InLoop(h) \/ pc[h] = "L80w" \/ Returned(h)) => Iterations(h) <= N - 1
          /\ pc[h] = "L76w" => Iterations(h) + 1 <= N - 1
          /\ pc[h] = "L75" =>
               IF Alive(server[h]) THEN ENABLED IncRead80(h)
                                   ELSE ENABLED LoopRead76(h)
          /\ pc[h] = "L76w" => ENABLED LoopWrite76(h)
          /\ pc[h] = "L77" => ENABLED Reselect77(h)

C13_Witness ==
    /\ Listening
    /\ N = 3
    /\ LiveTargets = {1}
    /\ \E h \in Requests : pc[h] = "L80w" /\ start[h] = 1 /\ Iterations(h) = 2
\* C14 -- Cursor monotonicity under concurrency, as stated: with handlers
\* running getNextAvailableServer concurrently, each ++ a read followed by a
\* write, roundRobinCount never decreases from one state to the next.
C14_MonotonicCursor == [][roundRobinCount' >= roundRobinCount]_vars
\* The step request g takes next is enabled, whatever the other requests do.
CanStep(g) ==
    /\ pc[g] = "L74" => ENABLED Select74(g)
    /\ pc[g] = "L75" => ENABLED (LoopRead76(g) \/ IncRead80(g))
    /\ pc[g] = "L76w" => ENABLED LoopWrite76(g)
    /\ pc[g] = "L77" => ENABLED Reselect77(g)
    /\ pc[g] = "L80w" => ENABLED IncWrite80(g)
    /\ pc[g] = "L91" => ENABLED PrintForward91(g)
    /\ pc[g] = "L95" => ENABLED Serve95(g)

\* C15 -- Forwarding does not block selection: while a request stands at its
\* Serve call (forward in progress, or blocked on the upstream for good), every
\* other request can take each step of its own selection and begin its own
\* forward: nothing that guards the cursor is held across the forward.
C15_ForwardDoesNotBlock ==
    \A h \in Requests :
      pc[h] = "L95" => \A g \in Requests \ {h} : CanStep(g)

C15_Witness ==
    /\ pc[1] = "L95"
    /\ pc[2] = "L95"
    /\ start[2] > start[1]
\* What construction left: the port, and one target per configured address,
\* in the configured order.
C16_AsBuilt ==
    Listening =>
        /\ port = "8000"
        /\ Len(servers) = Len(backends)
        /\ \A i \in 1..N : servers[i].addr = backends[i]
\* Once the listener runs no step changes the pool, a target's address or
\* liveness, or the port.
C16_Step == Listening => (servers' = servers /\ port' = port /\ phase' = phase)

\* C16 -- Frame of selection and dispatch: getNextAvailableServer and
\* serveProxy leave the servers sequence (length, order, elements), each
\* target's address and liveness and the listening port as construction left
\* them; of the LoadBalancer's fields only roundRobinCount changes.
C16_Frame == []C16_AsBuilt /\ [][C16_Step]_vars

C16_Witness ==
    /\ Listening
    /\ N = 2
    /\ roundRobinCount = 2
    /\ \A h \in Requests : pc[h] = "done"
\* The cursor after k calls made one after the other from cursor 0, and the
\* target of the k-th, computed from the targets' liveness alone.
RECURSIVE CursorAfter(_)
CursorAfter(k) ==
    IF k = 0 THEN 0
    ELSE LET c == CursorAfter(k - 1) IN c + 1 + DeadRun(c)
TargetOf(k) == FirstLive(CursorAfter(k - 1))
Done == {h \in Requests : pc[h] = "done"}

\* C17 -- Request-independent routing: whatever the requests' content (body,
\* path), runs with the same liveness choose the same target for the k-th
\* request and end with the same cursor: both are the values fixed by the
\* cursor and the liveness alone.
C17_RequestIndependentRouting ==
    (Listening /\ LiveTargets # {}) =>
        /\ \A k \in 1..Len(Forwards) : Forwards[k] = TargetOf(k)
        /\ \A h \in Requests :
             Returned(h) =>
               /\ server[h] = TargetOf(Cardinality(Done) + 1)
               /\ roundRobinCount = CursorAfter(Cardinality(Done) + 1)
        /\ (\A h \in Requests : ~Active(h)) =>
             roundRobinCount = CursorAfter(Cardinality(Done))

C17_Witness ==
    /\ Listening
    /\ N = 2
    /\ Forwards = <<1, 2, 1>>
    /\ \E h \in Requests :
         pc[h] = "written" /\ req[h] = [body |-> "y", path |-> "/a"]
SimpleTargets == {i \in 1..N : servers[i].impl = "simpleServer"}
\* the pool as main builds it: every member a simpleServer
AsShipped == Listening /\ SimpleTargets = 1..N

\* C18 -- Liveness is constantly true in the source: a target built as a
\* simpleServer is alive in every state; so with the pool as shipped no call
\* is ever inside the skip loop, and a call at the loop test can only leave
\* the loop and return.
C18_SimpleAlwaysAlive ==
    /\ \A i \in SimpleTargets : Alive(i)
    /\ AsShipped =>
         \A h \in Requests :
           /\ pc[h] \notin {"L76w", "L77"}
           /\ pc[h] = "L75" => (ENABLED IncRead80(h) /\ ~ENABLED LoopRead76(h))
           /\ pc[h] = "L80w" => ENABLED IncWrite80(h)

C18_Witness ==
    /\ AsShipped
    /\ N = 2
    /\ pc[1] = "done"
    /\ Returned(2)

====
